---- MODULE Spec2Model ----
(***************************************************************************)
(* The batch pipeline of gamified_bubbles: five scripts run one after the  *)
(* other over results/transactions_clean.csv.                              *)
(*   01_clean_data.py          transactions.csv -> transactions_clean.csv  *)
(*   02_reconstruct_inventory  -> inventory_by_session_trader.csv          *)
(*   03_compute_volatility     -> transactions_with_volatility.csv,        *)
(*                                volatility_by_session.csv                *)
(*   04_feedback_trading       -> feedback_events.csv,                     *)
(*                                feedback_by_session_trader.csv,          *)
(*                                feedback_by_session.csv                  *)
(*   05_regressions            -> session_level_dataset.csv                *)
(*                                                                         *)
(* Representation.  A cell is NaN (pandas' NaN / NaT, what errors="coerce" *)
(* leaves of an unparsable text) or Num(v) for an integer v; the raw cells *)
(* of transactions.csv are texts.  Session and                             *)
(* trader identifiers are integers standing for the uuid strings in their  *)
(* sort order; they are never NaN (the spec's data model marks only        *)
(* timestamp, price and quantity nullable).  Quantities and prices are     *)
(* integers, so sums and differences are exact.  A logarithm is kept only  *)
(* as its floating-point class ("fin", "-inf", "+inf", "nan"), a mean as   *)
(* the pair <<sum, count>>, a percentage change as <<num, den>>.  The      *)
(* standard deviations are kept only as defined ("fin") or not ("nan").    *)
(* The OLS fit of 05_regressions.py and its printed report are not         *)
(* modelled.                                                               *)
(***************************************************************************)
EXTENDS Integers, Sequences, FiniteSets, TLC

VARIABLES
    columns,               \* the column names of data/transactions.csv
    ledger,                \* the rows of data/transactions.csv
    filter_self_trades,    \* main(filter_self_trades=...) of 02, 03, 04
    rolling_window_trades, \* main(rolling_window_trades=...) of 03
    pc,                    \* the script to run next
    written,               \* the files present in results/
    error,                 \* per script: what its exception named
    clean_columns,         \* columns of transactions_clean.csv
    tx_clean,              \* rows of transactions_clean.csv
    inv_summary,           \* inventory_by_session_trader.csv
    tx_vol,                \* transactions_with_volatility.csv
    vol_summary,           \* volatility_by_session.csv
    events,                \* feedback_events.csv
    trader_summary,        \* feedback_by_session_trader.csv
    session_summary,       \* feedback_by_session.csv
    session_dataset        \* session_level_dataset.csv

vars == <<columns, ledger, filter_self_trades, rolling_window_trades, pc,
          written, error, clean_columns, tx_clean, inv_summary, tx_vol,
          vol_summary, events, trader_summary, session_summary,
          session_dataset>>

-----------------------------------------------------------------------------
(* Cells *)

NaN == << >>

Num(v) == <<v>>

IsNaN(x) == x = NaN

Val(x) == x[1]

-----------------------------------------------------------------------------
(* Bounds of the checked inputs *)

\* longest ledger of the schema, self-trade and timestamp specifications
MaxLen == 3

\* longest ledger of the feedback specification
MaxLenFb == 4

\* longest ledger of the inventory specification
MaxLenInv == 2

\* longest ledger of the volatility specification
MaxLenVol == 5

\* largest rolling window of the volatility specification
MaxWindow == 3

Sessions == {1, 2}

Traders == {1, 2}

-----------------------------------------------------------------------------
(* Sequence helpers *)

RECURSIVE SumSeq(_)
SumSeq(s) == IF s = << >> THEN 0 ELSE Head(s) + SumSeq(Tail(s))

\* The integers of the finite set S in increasing order.
SortedInts(S) ==
    [k \in 1..Cardinality(S) |->
        CHOOSE x \in S : Cardinality({y \in S : y < x}) = k - 1]

\* <<session, trader>> pairs compared as groupby sorts its keys.
PairLT(a, b) == a[1] < b[1] \/ (a[1] = b[1] /\ a[2] < b[2])

\* The pairs of the finite set S in increasing order.
SortedPairs(S) ==
    [k \in 1..Cardinality(S) |->
        CHOOSE x \in S : Cardinality({y \in S : PairLT(y, x)}) = k - 1]

-----------------------------------------------------------------------------
(* Steps shared by 02, 03 and 04 *)

\* tx[tx["bid_trader_uuid"] != tx["ask_trader_uuid"]]
SelfTradeFilter(tx) ==
    SelectSeq(tx, LAMBDA r : r.bid_trader_uuid # r.ask_trader_uuid)

\* if filter_self_trades: tx = tx[...]
ApplyFilter(tx, flag) == IF flag THEN SelfTradeFilter(tx) ELSE tx

\* tx.sort_values(["trading_session_uuid", "timestamp_dt"]): a stable sort,
\* rows with equal keys keep their order.  Every timestamp_dt is a number
\* here (dropna ran before).
RowBefore(tx, i, j) ==
    \/ tx[i].trading_session_uuid < tx[j].trading_session_uuid
    \/ /\ tx[i].trading_session_uuid = tx[j].trading_session_uuid
       /\ Val(tx[i].timestamp_dt) < Val(tx[j].timestamp_dt)
    \/ /\ tx[i].trading_session_uuid = tx[j].trading_session_uuid
       /\ Val(tx[i].timestamp_dt) = Val(tx[j].timestamp_dt)
       /\ i < j

SortValues(tx) ==
    [k \in 1..Len(tx) |->
        tx[CHOOSE i \in 1..Len(tx) :
              Cardinality({j \in 1..Len(tx) : RowBefore(tx, j, i)}) = k - 1]]

\* The row before row i in i's group of groupby("trading_session_uuid"),
\* 0 when i is the first row of its group.
PrevInSession(tx, i) ==
    LET before == {j \in 1..(i - 1) :
                     tx[j].trading_session_uuid = tx[i].trading_session_uuid}
    IN  IF before = {} THEN 0 ELSE CHOOSE j \in before : \A k \in before : k <= j

\* The rows of i's group up to and including i, oldest first.
SessionPrefix(tx, i) ==
    SortedInts({j \in 1..i :
                tx[j].trading_session_uuid = tx[i].trading_session_uuid})

\* The group keys of groupby("trading_session_uuid"), sorted.
SessionKeys(tx) ==
    SortedInts({tx[i].trading_session_uuid : i \in DOMAIN tx})

\* The group keys of groupby(["trading_session_uuid", "trader_uuid"]), sorted.
SessionTraderKeys(t) ==
    SortedPairs({<<t[i].trading_session_uuid, t[i].trader_uuid>> :
                    i \in DOMAIN t})

\* Missing that stops at the first absent column.
MissingFirstOnly(required, cols) ==
    IF required \ cols = {} THEN {}
    ELSE {CHOOSE c \in required \ cols : TRUE}

\* required - set(tx.columns)
Missing(required, cols) == required \ cols

-----------------------------------------------------------------------------
(* 01_clean_data.py *)

\* The texts of a raw cell that parse, with the number each parses to; any
\* other text of a cell ("x" here, or an empty cell) does not parse.
Digits == <<"0", "1", "2", "3", "4", "5", "6", "7", "8", "9">>

Numerals == {Digits[k] : k \in DOMAIN Digits}

NumberOf(text) == (CHOOSE k \in DOMAIN Digits : Digits[k] = text) - 1

\* pd.to_numeric(series, errors="coerce")
to_numeric(text) == IF text \in Numerals THEN Num(NumberOf(text)) ELSE NaN

\* parse_iso_datetime: pd.to_datetime(series, errors="coerce", utc=True); the
\* instants are numbered in time order.
parse_iso_datetime(text) ==
    IF text \in Numerals THEN Num(NumberOf(text)) ELSE NaN

\* tx["timestamp_dt"] is added only when the table has a "timestamp" column.
CleanColumns(cols) ==
    IF "timestamp" \in cols THEN cols \cup {"timestamp_dt"} ELSE cols

CleanRow(r, cols) ==
    [trading_session_uuid |-> r.trading_session_uuid,
     transaction_id       |-> r.transaction_id,
     timestamp_dt         |-> IF "timestamp" \in cols
                              THEN parse_iso_datetime(r.timestamp) ELSE NaN,
     price                |-> IF "price" \in cols
                              THEN to_numeric(r.price) ELSE NaN,
     quantity             |-> IF "quantity" \in cols
                              THEN to_numeric(r.quantity) ELSE NaN,
     bid_trader_uuid      |-> r.bid_trader_uuid,
     ask_trader_uuid      |-> r.ask_trader_uuid]

CleanTable(tx, cols) == [i \in 1..Len(tx) |-> CleanRow(tx[i], cols)]

-----------------------------------------------------------------------------
(* 02_reconstruct_inventory.py *)

Needed02 ==
    {"trading_session_uuid", "bid_trader_uuid", "ask_trader_uuid", "quantity"}

\* DropNaQuantity with the subset of 04's dropna: rows without a timestamp
\* are dropped too.
DropNaQuantityTimestamp(tx) ==
    SelectSeq(tx, LAMBDA r : ~IsNaN(r.quantity) /\ ~IsNaN(r.timestamp_dt))

\* tx.dropna(subset=["quantity"])
DropNaQuantity(tx) == SelectSeq(tx, LAMBDA r : ~IsNaN(r.quantity))

\* the table of 02 after the optional filter and the dropna
Tx02(tx, flag) == DropNaQuantity(ApplyFilter(tx, flag))

\* Bids with the buyer's leg booked to the seller (the asks block copied
\* without renaming the trader column).
BidsBookedToSeller(tx) ==
    [i \in 1..Len(tx) |->
        [trading_session_uuid |-> tx[i].trading_session_uuid,
         trader_uuid          |-> tx[i].ask_trader_uuid,
         inv_change           |-> Val(tx[i].quantity)]]

\* bids: one row per transaction, the buyer with +quantity
Bids(tx) ==
    [i \in 1..Len(tx) |->
        [trading_session_uuid |-> tx[i].trading_session_uuid,
         trader_uuid          |-> tx[i].bid_trader_uuid,
         inv_change           |-> Val(tx[i].quantity)]]

\* Asks without the minus sign.
AsksUnsigned(tx) ==
    [i \in 1..Len(tx) |->
        [trading_session_uuid |-> tx[i].trading_session_uuid,
         trader_uuid          |-> tx[i].ask_trader_uuid,
         inv_change           |-> Val(tx[i].quantity)]]

\* asks: one row per transaction, the seller with -quantity
Asks(tx) ==
    [i \in 1..Len(tx) |->
        [trading_session_uuid |-> tx[i].trading_session_uuid,
         trader_uuid          |-> tx[i].ask_trader_uuid,
         inv_change           |-> 0 - Val(tx[i].quantity)]]

\* inv = pd.concat([bids, asks], ignore_index=True)
InvLegs(tx) == Bids(tx) \o Asks(tx)

\* inv.groupby([session, trader], as_index=False)["inv_change"].sum()
InvSummary(inv) ==
    LET keys == SessionTraderKeys(inv)
        group(k) == SelectSeq(inv, LAMBDA l :
                        /\ l.trading_session_uuid = k[1]
                        /\ l.trader_uuid = k[2])
    IN  [n \in 1..Len(keys) |->
            [trading_session_uuid |-> keys[n][1],
             trader_uuid          |-> keys[n][2],
             net_inventory        |->
                 SumSeq([m \in 1..Len(group(keys[n])) |->
                            group(keys[n])[m].inv_change])]]

ReconstructInventoryTable(tx, flag) == InvSummary(InvLegs(Tx02(tx, flag)))

-----------------------------------------------------------------------------
(* 03_compute_volatility.py *)

Required03 ==
    {"trading_session_uuid", "price", "timestamp_dt", "bid_trader_uuid",
     "ask_trader_uuid"}

\* tx.dropna(subset=["price", "timestamp_dt"])
DropNa03(tx) ==
    SelectSeq(tx, LAMBDA r : ~IsNaN(r.price) /\ ~IsNaN(r.timestamp_dt))

\* the sorted table of 03 the returns are computed on
Tx03(tx, flag) == SortValues(DropNa03(ApplyFilter(tx, flag)))

\* np.log(price): finite for a positive price, -inf for 0, nan below 0
LogPrice(p) == IF p > 0 THEN "fin" ELSE IF p = 0 THEN "-inf" ELSE "nan"

\* the floating-point class of a - b
FloatDiff(a, b) ==
    IF a = "nan" \/ b = "nan" THEN "nan"
    ELSE IF a = "fin" /\ b = "fin" THEN "fin"
    ELSE IF a = b THEN "nan"
    ELSE IF a = "fin" THEN (IF b = "-inf" THEN "+inf" ELSE "-inf")
    ELSE a

\* tx.groupby(session)["log_price"].diff()
LogRet(tx, i) ==
    LET j == PrevInSession(tx, i)
    IN  IF j = 0 THEN "nan"
        ELSE FloatDiff(LogPrice(Val(tx[i].price)), LogPrice(Val(tx[j].price)))

\* tx.groupby(session)["price"].pct_change(): price/prev - 1, kept as the
\* fraction (price - prev) / prev
PctChange(tx, i) ==
    LET j == PrevInSession(tx, i)
    IN  IF j = 0 THEN NaN
        ELSE <<Val(tx[i].price) - Val(tx[j].price), Val(tx[j].price)>>

\* RollingStd over the last w defined returns of the session, wherever they
\* lie: missing returns are skipped instead of voiding the window.
RollingStdOverDefined(tx, i, w) ==
    LET pre  == SessionPrefix(tx, i)
        nobs == Cardinality({k \in DOMAIN pre : LogRet(tx, pre[k]) = "fin"})
    IN  IF nobs >= w /\ nobs > 1 /\ w > 0 THEN "fin" ELSE "nan"

\* groupby(session)["log_ret"].rolling(w).std(): the window is the last w
\* rows of the group ending at row i, min_periods is w, infinities count as
\* missing, and the sample variance (ddof=1) needs more than one observation.
RollingStd(tx, i, w) ==
    LET pre    == SessionPrefix(tx, i)
        first  == IF Len(pre) > w THEN Len(pre) - w + 1 ELSE 1
        window == IF w <= 0 THEN {} ELSE {pre[k] : k \in first..Len(pre)}
        nobs   == Cardinality({j \in window : LogRet(tx, j) = "fin"})
    IN  IF nobs >= w /\ nobs > 1 THEN "fin" ELSE "nan"

VolRows(tx, w) ==
    [i \in 1..Len(tx) |->
        [trading_session_uuid |-> tx[i].trading_session_uuid,
         transaction_id       |-> tx[i].transaction_id,
         timestamp_dt         |-> tx[i].timestamp_dt,
         price                |-> tx[i].price,
         log_price            |-> LogPrice(Val(tx[i].price)),
         log_ret              |-> LogRet(tx, i),
         ret                  |-> PctChange(tx, i),
         rolling_vol_logret   |-> RollingStd(tx, i, w)]]

\* tx.groupby(session).agg(n_trades=size, price_first=first, price_last=last)
VolSummary(tx) ==
    LET keys == SessionKeys(tx)
        group(s) == SelectSeq(tx, LAMBDA r : r.trading_session_uuid = s)
    IN  [n \in 1..Len(keys) |->
            [trading_session_uuid |-> keys[n],
             n_trades    |-> Len(group(keys[n])),
             price_first |-> group(keys[n])[1].price,
             price_last  |-> group(keys[n])[Len(group(keys[n]))].price]]

-----------------------------------------------------------------------------
(* 04_feedback_trading.py *)

Required04 ==
    {"trading_session_uuid", "transaction_id", "price", "quantity",
     "timestamp_dt", "bid_trader_uuid", "ask_trader_uuid"}

\* tx.dropna(subset=["price", "quantity", "timestamp_dt"])
DropNa04(tx) ==
    SelectSeq(tx, LAMBDA r :
        ~IsNaN(r.price) /\ ~IsNaN(r.quantity) /\ ~IsNaN(r.timestamp_dt))

\* Tx04 without the self-trade filter: the flag is ignored.
Tx04Unfiltered(tx, flag) == SortValues(DropNa04(tx))

\* the sorted table of 04 the price changes are computed on
Tx04(tx, flag) == SortValues(DropNa04(ApplyFilter(tx, flag)))

\* tx.groupby(session)["price"].diff()
PriceChange(tx, i) ==
    LET j == PrevInSession(tx, i)
    IN  IF j = 0 THEN NaN ELSE Num(Val(tx[i].price) - Val(tx[j].price))

\* FeedbackTrade with >= and <= for the price change: a flat price counts as
\* an uptick for the buyer and as a downtick for the seller.
FeedbackTradeNonStrict(price_change, signed_qty) ==
    IF \/ (price_change >= 0 /\ signed_qty > 0)
       \/ (price_change <= 0 /\ signed_qty < 0)
    THEN 1 ELSE 0

\* np.where(((price_change > 0) & (signed_qty > 0)) |
\*          ((price_change < 0) & (signed_qty < 0)), 1, 0)
FeedbackTrade(price_change, signed_qty) ==
    IF \/ (price_change > 0 /\ signed_qty > 0)
       \/ (price_change < 0 /\ signed_qty < 0)
    THEN 1 ELSE 0

\* one row of buyer (sign = 1) or seller (sign = -1), before feedback_trade
EventRow(tx, i, trader, sign) ==
    [trading_session_uuid |-> tx[i].trading_session_uuid,
     transaction_id       |-> tx[i].transaction_id,
     timestamp_dt         |-> tx[i].timestamp_dt,
     price                |-> tx[i].price,
     price_change         |-> PriceChange(tx, i),
     trader_uuid          |-> trader,
     quantity             |-> tx[i].quantity,
     signed_qty           |-> sign * Val(tx[i].quantity)]

Buyer(tx) == [i \in 1..Len(tx) |-> EventRow(tx, i, tx[i].bid_trader_uuid, 1)]

Seller(tx) == [i \in 1..Len(tx) |-> EventRow(tx, i, tx[i].ask_trader_uuid, -1)]

\* DropNaPriceChange that also drops the rows of an unchanged price.
DropNaOrFlatPriceChange(ev) ==
    SelectSeq(ev, LAMBDA e : ~IsNaN(e.price_change) /\ e.price_change # Num(0))

\* events.dropna(subset=["price_change"])
DropNaPriceChange(ev) == SelectSeq(ev, LAMBDA e : ~IsNaN(e.price_change))

\* events["feedback_trade"] = np.where(...)
WithFeedback(ev) ==
    [i \in 1..Len(ev) |->
        [trading_session_uuid |-> ev[i].trading_session_uuid,
         transaction_id       |-> ev[i].transaction_id,
         timestamp_dt         |-> ev[i].timestamp_dt,
         price                |-> ev[i].price,
         price_change         |-> ev[i].price_change,
         trader_uuid          |-> ev[i].trader_uuid,
         quantity             |-> ev[i].quantity,
         signed_qty           |-> ev[i].signed_qty,
         feedback_trade       |->
             FeedbackTrade(Val(ev[i].price_change), ev[i].signed_qty)]]

\* events = pd.concat([buyer, seller]); dropna; feedback_trade
FeedbackEvents(tx) == WithFeedback(DropNaPriceChange(Buyer(tx) \o Seller(tx)))

\* ("feedback_trade", "mean") of a group: the pair <<sum, count>>
Mean(group) ==
    <<SumSeq([m \in 1..Len(group) |-> group[m].feedback_trade]), Len(group)>>

\* events.groupby([session, trader]).agg(n_trades=size, feedback_rate=mean)
TraderSummary(ev) ==
    LET keys == SessionTraderKeys(ev)
        group(k) == SelectSeq(ev, LAMBDA e :
                        /\ e.trading_session_uuid = k[1]
                        /\ e.trader_uuid = k[2])
    IN  [n \in 1..Len(keys) |->
            [trading_session_uuid |-> keys[n][1],
             trader_uuid          |-> keys[n][2],
             n_trades             |-> Len(group(keys[n])),
             feedback_rate        |-> Mean(group(keys[n]))]]

\* SessionSummary reindexed to every session: a session without events gets
\* a row with n_events = 0 and the mean of nothing.
SessionSummaryAllSessions(ev) ==
    LET keys == SortedInts(Sessions)
        group(s) == SelectSeq(ev, LAMBDA e : e.trading_session_uuid = s)
    IN  [n \in 1..Len(keys) |->
            [trading_session_uuid |-> keys[n],
             n_events             |-> Len(group(keys[n])),
             feedback_rate        |-> Mean(group(keys[n]))]]

\* events.groupby(session).agg(n_events=size, feedback_rate=mean)
SessionSummary(ev) ==
    LET keys == SessionKeys(ev)
        group(s) == SelectSeq(ev, LAMBDA e : e.trading_session_uuid = s)
    IN  [n \in 1..Len(keys) |->
            [trading_session_uuid |-> keys[n],
             n_events             |-> Len(group(keys[n])),
             feedback_rate        |-> Mean(group(keys[n]))]]

-----------------------------------------------------------------------------
(* 05_regressions.py *)

Inputs05 == {"volatility_by_session.csv", "feedback_by_session.csv"}

\* vol.merge(fb, on="trading_session_uuid", how="inner"): the sessions of vol
\* that fb has too, in vol's order (each table has one row per session)
Merge(vol, fb) ==
    LET kept == SelectSeq(vol, LAMBDA v :
                    \E k \in DOMAIN fb :
                        fb[k].trading_session_uuid = v.trading_session_uuid)
        other(v) == fb[CHOOSE k \in DOMAIN fb :
                        fb[k].trading_session_uuid = v.trading_session_uuid]
    IN  [n \in 1..Len(kept) |->
            [trading_session_uuid |-> kept[n].trading_session_uuid,
             n_trades      |-> kept[n].n_trades,
             price_first   |-> kept[n].price_first,
             price_last    |-> kept[n].price_last,
             n_events      |-> other(kept[n]).n_events,
             feedback_rate |-> other(kept[n]).feedback_rate]]

-----------------------------------------------------------------------------
(* The pipeline *)

RawColumns ==
    {"trading_session_uuid", "transaction_id", "timestamp", "price",
     "quantity", "bid_trader_uuid", "ask_trader_uuid"}

Stages == {"inventory", "volatility", "feedback", "regression"}

\* rolling_window_trades=10 of the script's own call of main
DefaultWindow == 10

\* The raw rows with the given cells; timestamp and transaction_id are set by
\* Ledgers.
Rows(S, P, Q, Pairs) ==
    {[trading_session_uuid |-> s, price |-> p, quantity |-> q,
      bid_trader_uuid |-> pr[1], ask_trader_uuid |-> pr[2]] :
        s \in S, p \in P, q \in Q, pr \in Pairs}

\* The ledger has 1..n rows of R, each with a timestamp text of T.
\* transaction_id is the row's place in the file (unique).
TimedLedger(R, T, n) ==
    \E k \in 1..n : \E f \in [1..k -> R], t \in [1..k -> T] :
        ledger = [i \in 1..k |->
                     [transaction_id |-> i, timestamp |-> t[i]] @@ f[i]]

\* The same with the rows in time order: row i carries the i-th instant.
OrderedLedger(R, n) ==
    \E k \in 1..n : \E f \in [1..k -> R] :
        ledger = [i \in 1..k |->
                     [transaction_id |-> i, timestamp |-> Digits[i + 1]] @@ f[i]]

\* A table of one row: schema violations are tried on it.
OneRowLedger == OrderedLedger(Rows({1}, {"1"}, {"1"}, {<<1, 2>>}), 1)

\* Tables that lack at most two of the columns.
SchemaChoices ==
    {RawColumns \ gone : gone \in {g \in SUBSET RawColumns : Cardinality(g) <= 2}}

\* Tables that lack exactly one column.
OneMissing == {RawColumns \ {c} : c \in RawColumns}

Start(Flags, Windows) ==
    /\ filter_self_trades \in Flags
    /\ rolling_window_trades \in Windows
    /\ pc = "clean"
    /\ written = {}
    /\ error = [s \in Stages |-> {}]
    /\ clean_columns = {}
    /\ tx_clean = << >>
    /\ inv_summary = << >>
    /\ tx_vol = << >>
    /\ vol_summary = << >>
    /\ events = << >>
    /\ trader_summary = << >>
    /\ session_summary = << >>
    /\ session_dataset = << >>

\* 01_clean_data.py main(): parse, coerce, write transactions_clean.csv.  It
\* checks no column: each step is guarded by "if col in tx.columns".
Clean ==
    /\ pc = "clean"
    /\ clean_columns' = CleanColumns(columns)
    /\ tx_clean' = CleanTable(ledger, columns)
    /\ written' = written \cup {"transactions_clean.csv"}
    /\ pc' = "inventory"
    /\ UNCHANGED <<columns, ledger, filter_self_trades, rolling_window_trades,
                   error, inv_summary, tx_vol, vol_summary, events,
                   trader_summary, session_summary, session_dataset>>

\* 02 main(): all needed columns present
ReconstructInventory ==
    /\ pc = "inventory"
    /\ "transactions_clean.csv" \in written
    /\ Missing(Needed02, clean_columns) = {}
    /\ inv_summary' = ReconstructInventoryTable(tx_clean, filter_self_trades)
    /\ written' = written \cup {"inventory_by_session_trader.csv"}
    /\ pc' = "volatility"
    /\ UNCHANGED <<columns, ledger, filter_self_trades, rolling_window_trades,
                   error, clean_columns, tx_clean, tx_vol, vol_summary, events,
                   trader_summary, session_summary, session_dataset>>

\* 02 main(): raise ValueError(f"Missing required columns: {missing}"); the
\* script prints it and exits 1, and the next script can still be run
ReconstructInventoryError ==
    /\ pc = "inventory"
    /\ "transactions_clean.csv" \in written
    /\ Missing(Needed02, clean_columns) # {}
    /\ error' = [error EXCEPT !["inventory"] = Missing(Needed02, clean_columns)]
    /\ pc' = "volatility"
    /\ UNCHANGED <<columns, ledger, filter_self_trades, rolling_window_trades,
                   written, clean_columns, tx_clean, inv_summary, tx_vol,
                   vol_summary, events, trader_summary, session_summary,
                   session_dataset>>

\* 03 main(): all required columns present
ComputeVolatility ==
    /\ pc = "volatility"
    /\ "transactions_clean.csv" \in written
    /\ Missing(Required03, clean_columns) = {}
    /\ tx_vol' = VolRows(Tx03(tx_clean, filter_self_trades),
                         rolling_window_trades)
    /\ vol_summary' = VolSummary(Tx03(tx_clean, filter_self_trades))
    /\ written' = written \cup {"transactions_with_volatility.csv",
                                "volatility_by_session.csv"}
    /\ pc' = "feedback"
    /\ UNCHANGED <<columns, ledger, filter_self_trades, rolling_window_trades,
                   error, clean_columns, tx_clean, inv_summary, events,
                   trader_summary, session_summary, session_dataset>>

\* 03 main(): raise ValueError(f"Missing required columns: {missing}")
ComputeVolatilityError ==
    /\ pc = "volatility"
    /\ "transactions_clean.csv" \in written
    /\ Missing(Required03, clean_columns) # {}
    /\ error' = [error EXCEPT !["volatility"] =
                                  Missing(Required03, clean_columns)]
    /\ pc' = "feedback"
    /\ UNCHANGED <<columns, ledger, filter_self_trades, rolling_window_trades,
                   written, clean_columns, tx_clean, inv_summary, tx_vol,
                   vol_summary, events, trader_summary, session_summary,
                   session_dataset>>

\* 04 main(): all required columns present
FeedbackTrading ==
    /\ pc = "feedback"
    /\ "transactions_clean.csv" \in written
    /\ Missing(Required04, clean_columns) = {}
    /\ LET ev == FeedbackEvents(Tx04(tx_clean, filter_self_trades))
       IN  /\ events' = ev
           /\ trader_summary' = TraderSummary(ev)
           /\ session_summary' = SessionSummary(ev)
    /\ written' = written \cup {"feedback_events.csv",
                                "feedback_by_session_trader.csv",
                                "feedback_by_session.csv"}
    /\ pc' = "regression"
    /\ UNCHANGED <<columns, ledger, filter_self_trades, rolling_window_trades,
                   error, clean_columns, tx_clean, inv_summary, tx_vol,
                   vol_summary, session_dataset>>

\* 04 main(): raise ValueError(f"Missing required columns: {missing}")
FeedbackTradingError ==
    /\ pc = "feedback"
    /\ "transactions_clean.csv" \in written
    /\ Missing(Required04, clean_columns) # {}
    /\ error' = [error EXCEPT !["feedback"] =
                                  Missing(Required04, clean_columns)]
    /\ pc' = "regression"
    /\ UNCHANGED <<columns, ledger, filter_self_trades, rolling_window_trades,
                   written, clean_columns, tx_clean, inv_summary, tx_vol,
                   vol_summary, events, trader_summary, session_summary,
                   session_dataset>>

\* 05: both inputs exist; merge and save session_level_dataset.csv
Regressions ==
    /\ pc = "regression"
    /\ Inputs05 \subseteq written
    /\ session_dataset' = Merge(vol_summary, session_summary)
    /\ written' = written \cup {"session_level_dataset.csv"}
    /\ pc' = "done"
    /\ UNCHANGED <<columns, ledger, filter_self_trades, rolling_window_trades,
                   error, clean_columns, tx_clean, inv_summary, tx_vol,
                   vol_summary, events, trader_summary, session_summary>>

\* 05: raise FileNotFoundError for an input that is not there
RegressionsError ==
    /\ pc = "regression"
    /\ ~(Inputs05 \subseteq written)
    /\ error' = [error EXCEPT !["regression"] = Inputs05 \ written]
    /\ pc' = "done"
    /\ UNCHANGED <<columns, ledger, filter_self_trades, rolling_window_trades,
                   written, clean_columns, tx_clean, inv_summary, tx_vol,
                   vol_summary, events, trader_summary, session_summary,
                   session_dataset>>

Next ==
    \/ Clean
    \/ ReconstructInventory
    \/ ReconstructInventoryError
    \/ ComputeVolatility
    \/ ComputeVolatilityError
    \/ FeedbackTrading
    \/ FeedbackTradingError
    \/ Regressions
    \/ RegressionsError

-----------------------------------------------------------------------------
(* Specifications: the pipeline over different sets of input tables *)

\* Tables that may lack columns.
Init ==
    /\ OrderedLedger(Rows(Sessions, {"1", "2"}, {"1"}, {<<1, 2>>}), MaxLen)
    /\ columns \in SchemaChoices
    /\ Start({FALSE}, {DefaultWindow})

Spec == Init /\ [][Next]_vars

\* Inventory: every buyer/seller pair, unparsable quantities, both flags.
InitInventory ==
    /\ \/ /\ OrderedLedger(Rows(Sessions, {"1"}, {"x", "1", "2"},
                                Traders \X Traders), MaxLenInv)
          /\ columns = RawColumns
       \/ OneRowLedger /\ columns \in OneMissing
    /\ Start(BOOLEAN, {DefaultWindow})

SpecInventory == InitInventory /\ [][Next]_vars

\* Volatility: prices 0 (log -inf) and 1, every window up to MaxWindow.
InitVolatility ==
    /\ \/ /\ OrderedLedger(Rows(Sessions, {"0", "1"}, {"1"}, {<<1, 2>>}),
                           MaxLenVol)
          /\ columns = RawColumns
       \/ OneRowLedger /\ columns \in OneMissing
    /\ Start({FALSE}, 1..MaxWindow)

SpecVolatility == InitVolatility /\ [][Next]_vars

\* Feedback: rising, falling and flat prices, unparsable quantities.
InitFeedback ==
    /\ \/ /\ OrderedLedger(Rows(Sessions, {"1", "2"}, {"x", "1"}, {<<1, 2>>}),
                           MaxLenFb)
          /\ columns = RawColumns
       \/ OneRowLedger /\ columns \in OneMissing
    /\ Start({FALSE}, {DefaultWindow})

SpecFeedback == InitFeedback /\ [][Next]_vars

\* Self-trades, with and without the filter.
InitSelfTrade ==
    /\ \/ /\ OrderedLedger(Rows(Sessions, {"1", "2"}, {"1"},
                                {<<1, 2>>, <<2, 1>>, <<1, 1>>}), MaxLen)
          /\ columns = RawColumns
       \/ OneRowLedger /\ columns \in OneMissing
    /\ Start(BOOLEAN, {DefaultWindow})

SpecSelfTrade == InitSelfTrade /\ [][Next]_vars

\* Unparsable and out-of-order timestamps.
InitTimestamp ==
    /\ \/ /\ TimedLedger(Rows({1}, {"1", "2"}, {"1"}, {<<1, 2>>, <<1, 1>>}),
                         {"x", "1", "2"}, MaxLen)
          /\ columns = RawColumns
       \/ OneRowLedger /\ columns \in OneMissing
    /\ Start(BOOLEAN, {DefaultWindow})

SpecTimestamp == InitTimestamp /\ [][Next]_vars

-----------------------------------------------------------------------------
(* Inventory: C1, C10 *)

InventoryWritten == "inventory_by_session_trader.csv" \in written

\* The quantity of raw row i if it parses and Side(row) holds, else 0.
RawQuantityIf(i, Side(_)) ==
    IF ledger[i].quantity \in Numerals /\ Side(ledger[i])
    THEN NumberOf(ledger[i].quantity) ELSE 0

\* Total quantity trader t bought in session s, over every row of the raw
\* ledger with a parsable quantity.
TotalBought(s, t) ==
    SumSeq([i \in 1..Len(ledger) |->
              RawQuantityIf(i, LAMBDA r : r.trading_session_uuid = s
                                          /\ r.bid_trader_uuid = t)])

\* Total quantity trader t sold in session s.
TotalSold(s, t) ==
    SumSeq([i \in 1..Len(ledger) |->
              RawQuantityIf(i, LAMBDA r : r.trading_session_uuid = s
                                          /\ r.ask_trader_uuid = t)])

\* C1: every row written by the inventory reconstruction carries total bought
\* minus total sold of its trader in its session, counted over all raw
\* transactions with a parsable quantity, self-trades included, for either
\* value of filter_self_trades; and the run with the other value of the flag
\* gives the same number for every (session, trader) it also reports.
C1_NetInventory ==
    InventoryWritten =>
        LET other == ReconstructInventoryTable(tx_clean, ~filter_self_trades)
        IN  \A k \in DOMAIN inv_summary :
                /\ inv_summary[k].net_inventory =
                       TotalBought(inv_summary[k].trading_session_uuid,
                                   inv_summary[k].trader_uuid)
                       - TotalSold(inv_summary[k].trading_session_uuid,
                                   inv_summary[k].trader_uuid)
                /\ \A m \in DOMAIN other :
                       (/\ other[m].trading_session_uuid =
                               inv_summary[k].trading_session_uuid
                        /\ other[m].trader_uuid = inv_summary[k].trader_uuid)
                       => other[m].net_inventory = inv_summary[k].net_inventory

\* C1 witness: the filter is on, a trader has a self-trade with a parsable
\* quantity in a session, and the trader's row of that session is written
\* with a non-zero position.
C1_Witness ==
    /\ InventoryWritten
    /\ filter_self_trades
    /\ \E i \in DOMAIN ledger, k \in DOMAIN inv_summary :
           /\ ledger[i].bid_trader_uuid = ledger[i].ask_trader_uuid
           /\ ledger[i].quantity \in Numerals
           /\ inv_summary[k].trading_session_uuid = ledger[i].trading_session_uuid
           /\ inv_summary[k].trader_uuid = ledger[i].bid_trader_uuid
           /\ inv_summary[k].net_inventory # 0

\* C10: the two legs of every transaction 02 keeps have inv_change values that
\* sum to zero, and in every session of inventory_by_session_trader the
\* net_inventory values of its traders sum to zero.
C10_Conservation ==
    InventoryWritten =>
        LET tx == Tx02(tx_clean, filter_self_trades)
        IN  /\ Len(Bids(tx)) = Len(tx) /\ Len(Asks(tx)) = Len(tx)
            /\ \A i \in DOMAIN tx :
                   Bids(tx)[i].inv_change + Asks(tx)[i].inv_change = 0
            /\ \A s \in Sessions :
                   LET rows == SelectSeq(inv_summary,
                                   LAMBDA r : r.trading_session_uuid = s)
                   IN  SumSeq([k \in 1..Len(rows) |-> rows[k].net_inventory]) = 0

\* C10 witness: a written session with two traders holding opposite non-zero
\* positions.
C10_Witness ==
    /\ InventoryWritten
    /\ \E k, m \in DOMAIN inv_summary :
           /\ inv_summary[k].trading_session_uuid =
                  inv_summary[m].trading_session_uuid
           /\ inv_summary[k].trader_uuid # inv_summary[m].trader_uuid
           /\ inv_summary[k].net_inventory > 0
           /\ inv_summary[m].net_inventory = 0 - inv_summary[k].net_inventory

-----------------------------------------------------------------------------
(* The time-ordered tables, described from the raw ledger *)

VolatilityWritten == "transactions_with_volatility.csv" \in written

FeedbackWritten == "feedback_events.csv" \in written

Parses(text) == text \in Numerals

SelfTrade(i) == ledger[i].bid_trader_uuid = ledger[i].ask_trader_uuid

\* Raw row i passes the self-trade gate of the run.
Passes(i, flag) == flag => ~SelfTrade(i)

\* Raw row i is a row 04 works on: price, quantity and timestamp parse.
Usable04(i, flag) ==
    /\ Passes(i, flag)
    /\ Parses(ledger[i].price)
    /\ Parses(ledger[i].quantity)
    /\ Parses(ledger[i].timestamp)

\* Raw row i is a row 03 works on: price and timestamp parse.
Usable03(i, flag) ==
    /\ Passes(i, flag)
    /\ Parses(ledger[i].price)
    /\ Parses(ledger[i].timestamp)

\* Raw row j comes before raw row i in the time order of their session.
Earlier(j, i) ==
    /\ ledger[j].trading_session_uuid = ledger[i].trading_session_uuid
    /\ \/ NumberOf(ledger[j].timestamp) < NumberOf(ledger[i].timestamp)
       \/ /\ NumberOf(ledger[j].timestamp) = NumberOf(ledger[i].timestamp)
          /\ j < i

\* The rows of I that come before row i in its session.
EarlierIn(I, i) == {j \in I \ {i} : Earlier(j, i)}

\* The row of I immediately before row i in its session; 0 if there is none.
Predecessor(I, i) ==
    LET before == EarlierIn(I, i)
    IN  IF before = {} THEN 0
        ELSE CHOOSE j \in before : \A k \in before \ {j} : Earlier(k, j)

Rows04 == {i \in DOMAIN ledger : Usable04(i, filter_self_trades)}

Rows03 == {i \in DOMAIN ledger : Usable03(i, filter_self_trades)}

\* The places in feedback_events of the events of transaction tid.
EventsOf(tid) == {k \in DOMAIN events : events[k].transaction_id = tid}

EventsOfSession(s) == {k \in DOMAIN events : events[k].trading_session_uuid = s}

Sign(x) == IF x > 0 THEN 1 ELSE IF x < 0 THEN -1 ELSE 0

-----------------------------------------------------------------------------
(* Feedback: C2, C3 *)

\* C2: every event of feedback_events has feedback_trade = 1 if and only if
\* price_change and signed_qty are both positive or both negative; and every
\* transaction whose price equals that of the transaction before it in its
\* session keeps both its events, classified 0 and counted in n_events and
\* n_trades.
C2_Classification ==
    FeedbackWritten =>
        /\ \A k \in DOMAIN events :
               /\ events[k].feedback_trade \in {0, 1}
               /\ events[k].feedback_trade = 1 <=>
                      Sign(Val(events[k].price_change))
                          * Sign(events[k].signed_qty) = 1
        /\ LET rows == Rows04
           IN  \A i \in rows :
               LET j == Predecessor(rows, i)
               IN  (j # 0 /\ ledger[j].price = ledger[i].price) =>
                       /\ Cardinality(EventsOf(i)) = 2
                       /\ \A k \in EventsOf(i) :
                              /\ events[k].price_change = Num(0)
                              /\ events[k].feedback_trade = 0
        /\ \A n \in DOMAIN session_summary :
               session_summary[n].n_events =
                   Cardinality(EventsOfSession(
                       session_summary[n].trading_session_uuid))
        /\ \A n \in DOMAIN trader_summary :
               trader_summary[n].n_trades =
                   Cardinality({k \in DOMAIN events :
                       /\ events[k].trading_session_uuid =
                              trader_summary[n].trading_session_uuid
                       /\ events[k].trader_uuid = trader_summary[n].trader_uuid})

\* C2 witness: one table with an event after an unchanged price, a buyer's
\* event after an uptick and a seller's event after a downtick.
C2_Witness ==
    /\ FeedbackWritten
    /\ \E k \in DOMAIN events : events[k].price_change = Num(0)
    /\ \E k \in DOMAIN events :
           /\ Val(events[k].price_change) > 0
           /\ events[k].signed_qty > 0
           /\ events[k].feedback_trade = 1
    /\ \E k \in DOMAIN events :
           /\ Val(events[k].price_change) < 0
           /\ events[k].signed_qty < 0
           /\ events[k].feedback_trade = 1

\* C3: in each session the first of the transactions with parsable price,
\* quantity and timestamp (in time order) has no event; every later one has
\* exactly two, the buyer's with +quantity and the seller's with -quantity,
\* with the same price_change; so a session with k such transactions has
\* 2 * (k - 1) events.
C3_TwoEventsPerTransaction ==
    FeedbackWritten =>
        LET rows == Rows04
        IN
        /\ \A i \in DOMAIN ledger : i \notin rows => EventsOf(i) = {}
        /\ \A i \in rows :
               IF Predecessor(rows, i) = 0
               THEN EventsOf(i) = {}
               ELSE /\ Cardinality(EventsOf(i)) = 2
                    /\ \E b, a \in EventsOf(i) :
                           /\ b < a
                           /\ events[b].trader_uuid = ledger[i].bid_trader_uuid
                           /\ events[b].signed_qty = NumberOf(ledger[i].quantity)
                           /\ events[a].trader_uuid = ledger[i].ask_trader_uuid
                           /\ events[a].signed_qty =
                                  0 - NumberOf(ledger[i].quantity)
                           /\ events[a].price_change = events[b].price_change
                           /\ ~IsNaN(events[a].price_change)
        /\ \A s \in Sessions :
               LET k == Cardinality({i \in rows :
                            ledger[i].trading_session_uuid = s})
               IN  Cardinality(EventsOfSession(s)) =
                       IF k = 0 THEN 0 ELSE 2 * (k - 1)

\* C3 witness: a session with three usable transactions and four events,
\* beside a row with an unparsable quantity.
C3_Witness ==
    /\ FeedbackWritten
    /\ \E i \in DOMAIN ledger : ~Parses(ledger[i].quantity)
    /\ \E s \in Sessions :
           /\ Cardinality({i \in Rows04 :
                  ledger[i].trading_session_uuid = s}) = 3
           /\ Cardinality(EventsOfSession(s)) = 4

-----------------------------------------------------------------------------
(* Feedback: C4, C6 *)

\* The place in transactions_with_volatility of transaction tid.
VolRowOf(tid) == CHOOSE v \in DOMAIN tx_vol : tx_vol[v].transaction_id = tid

\* C4: the price_change of every event equals price[i] - price[i-1], where
\* i-1 is the transaction immediately before the event's transaction in its
\* session of transactions_with_volatility: 03 and 04 difference against the
\* same predecessor, also when quantities are unparsable.
C4_SamePredecessor ==
    (VolatilityWritten /\ FeedbackWritten) =>
        \A k \in DOMAIN events :
            /\ \E v \in DOMAIN tx_vol :
                   tx_vol[v].transaction_id = events[k].transaction_id
            /\ LET v == VolRowOf(events[k].transaction_id)
                   u == PrevInSession(tx_vol, v)
               IN  /\ u # 0
                   /\ events[k].price_change =
                          Num(Val(tx_vol[v].price) - Val(tx_vol[u].price))

\* The sessions with a row in transactions_clean.csv.
LedgerSessions == {ledger[i].trading_session_uuid : i \in DOMAIN ledger}

RateInUnitInterval(rate, n) ==
    /\ rate[2] = n
    /\ 0 <= rate[1]
    /\ rate[1] <= rate[2]

\* C6 as claimed: a session without feedback events has a row in
\* feedback_by_session with n_events = 0; no error is raised; every row with
\* n_events > 0 has its feedback_rate in [0, 1].
C6_ZeroEventGroupReported ==
    FeedbackWritten =>
        /\ error["feedback"] = {}
        /\ \A s \in LedgerSessions :
               EventsOfSession(s) = {} =>
                   \E n \in DOMAIN session_summary :
                       /\ session_summary[n].trading_session_uuid = s
                       /\ session_summary[n].n_events = 0
        /\ \A n \in DOMAIN session_summary :
               session_summary[n].n_events > 0 =>
                   RateInUnitInterval(session_summary[n].feedback_rate,
                                      session_summary[n].n_events)

\* C6 amended: a session without feedback events has no row in
\* feedback_by_session and its traders none in feedback_by_session_trader;
\* no error is raised; every row that is reported has at least one event and
\* its feedback_rate in [0, 1].
C6_ZeroEventGroupOmitted ==
    FeedbackWritten =>
        /\ error["feedback"] = {}
        /\ \A s \in LedgerSessions :
               EventsOfSession(s) = {} =>
                   /\ \A n \in DOMAIN session_summary :
                          session_summary[n].trading_session_uuid # s
                   /\ \A n \in DOMAIN trader_summary :
                          trader_summary[n].trading_session_uuid # s
        /\ \A s \in LedgerSessions :
               EventsOfSession(s) # {} =>
                   \E n \in DOMAIN session_summary :
                       session_summary[n].trading_session_uuid = s
        /\ \A n \in DOMAIN session_summary :
               /\ session_summary[n].n_events > 0
               /\ RateInUnitInterval(session_summary[n].feedback_rate,
                                     session_summary[n].n_events)
        /\ \A n \in DOMAIN trader_summary :
               /\ trader_summary[n].n_trades > 0
               /\ RateInUnitInterval(trader_summary[n].feedback_rate,
                                     trader_summary[n].n_trades)

\* C6 witness: a session with a single transaction, absent from
\* feedback_by_session, beside a session that is reported with a rate
\* strictly between 0 and 1.
C6_Witness ==
    /\ FeedbackWritten
    /\ \E s \in LedgerSessions :
           /\ Cardinality({i \in DOMAIN ledger :
                  ledger[i].trading_session_uuid = s}) = 1
           /\ \A n \in DOMAIN session_summary :
                  session_summary[n].trading_session_uuid # s
    /\ \E n \in DOMAIN session_summary :
           /\ session_summary[n].feedback_rate[1] > 0
           /\ session_summary[n].feedback_rate[1] <
                  session_summary[n].feedback_rate[2]

-----------------------------------------------------------------------------
(* Self-trade filter: C7 *)

\* feedback_events of the run without the filter on the same table
UnfilteredEvents == FeedbackEvents(Tx04(tx_clean, FALSE))

AllRows04 == {i \in DOMAIN ledger : Usable04(i, FALSE)}

KeptRows04 == {i \in DOMAIN ledger : Usable04(i, TRUE)}

InSession(I, s) == {i \in I : ledger[i].trading_session_uuid = s}

\* C7 as claimed: with the filter on, feedback_events is the table of the
\* unfiltered run with exactly the events of the self-trades removed.
C7_UnfilteredMinusSelfTrades ==
    (FeedbackWritten /\ filter_self_trades) =>
        events = SelectSeq(UnfilteredEvents,
                           LAMBDA e : ~SelfTrade(e.transaction_id))

\* C7 amended: with the filter on, feedback_events holds no event of a
\* self-trade; every other usable transaction except the first one left in its
\* session has exactly two events, whose price_change is the difference to the
\* preceding transaction that is not a self-trade; an event of the unfiltered
\* run is present unchanged when its transaction is not a self-trade and the
\* transaction before it in the unfiltered run is not one either; and a
\* session in which a usable transaction is left has two events fewer per
\* usable self-trade than in the unfiltered run.
C7_FilterBeforeDifferencing ==
    (FeedbackWritten /\ filter_self_trades) =>
        LET unfiltered == UnfilteredEvents
            all  == AllRows04
            kept == KeptRows04
        IN
        /\ \A k \in DOMAIN events : ~SelfTrade(events[k].transaction_id)
        /\ \A i \in kept :
               LET j == Predecessor(kept, i)
               IN  IF j = 0
                   THEN EventsOf(i) = {}
                   ELSE /\ Cardinality(EventsOf(i)) = 2
                        /\ \A k \in EventsOf(i) :
                               events[k].price_change =
                                   Num(NumberOf(ledger[i].price)
                                       - NumberOf(ledger[j].price))
        /\ \A m \in DOMAIN unfiltered :
               LET i == unfiltered[m].transaction_id
                   j == Predecessor(all, i)
               IN  (~SelfTrade(i) /\ j # 0 /\ ~SelfTrade(j)) =>
                       \E k \in DOMAIN events : events[k] = unfiltered[m]
        /\ \A s \in Sessions :
               InSession(kept, s) # {} =>
                   Cardinality({m \in DOMAIN unfiltered :
                       unfiltered[m].trading_session_uuid = s})
                   - Cardinality(EventsOfSession(s))
                   = 2 * Cardinality(InSession(all \ kept, s))

\* C7 witness: the filter is on and an event of a transaction that follows a
\* self-trade carries a price_change other than in the unfiltered run.
C7_Witness ==
    /\ FeedbackWritten
    /\ filter_self_trades
    /\ \E k \in DOMAIN events, m \in DOMAIN UnfilteredEvents :
           /\ events[k].transaction_id = UnfilteredEvents[m].transaction_id
           /\ events[k].price_change # UnfilteredEvents[m].price_change
           /\ SelfTrade(Predecessor(AllRows04, events[k].transaction_id))

-----------------------------------------------------------------------------
(* Unparsable timestamps: C8 *)

\* The net_inventory a table reports for trader t in session s, 0 if it has
\* no row for them.
NetOf(table, s, t) ==
    LET hit == {k \in DOMAIN table : /\ table[k].trading_session_uuid = s
                                     /\ table[k].trader_uuid = t}
    IN  IF hit = {} THEN 0 ELSE table[CHOOSE k \in hit : TRUE].net_inventory

HasRow(table, s, t) ==
    \E k \in DOMAIN table : /\ table[k].trading_session_uuid = s
                            /\ table[k].trader_uuid = t

\* inventory_by_session_trader of the same run on the table without row i
InventoryWithout(i) ==
    ReconstructInventoryTable(
        SelectSeq(tx_clean, LAMBDA r : r.transaction_id # i),
        filter_self_trades)

\* Row i has no timestamp_dt but a quantity.
Untimed(i) == ~Parses(ledger[i].timestamp) /\ Parses(ledger[i].quantity)

\* C8: a transaction with an unparsable timestamp and a parsable quantity is
\* no row of transactions_with_volatility, is not counted in n_trades, has no
\* feedback event and is no predecessor of a return or a price change; yet,
\* unless the self-trade filter removes it, its buyer and its seller have an
\* inventory row, and its quantity is in their net_inventory (+quantity for
\* the buyer, -quantity for the seller, compared with the run without it).
C8_TimestampAsymmetry ==
    \A i \in DOMAIN ledger : Untimed(i) =>
        /\ VolatilityWritten =>
               /\ \A v \in DOMAIN tx_vol : tx_vol[v].transaction_id # i
               /\ \A n \in DOMAIN vol_summary :
                      vol_summary[n].n_trades =
                          Cardinality(InSession(Rows03 \ {i},
                              vol_summary[n].trading_session_uuid))
               /\ \A v \in DOMAIN tx_vol :
                      LET j == Predecessor(Rows03, tx_vol[v].transaction_id)
                      IN  /\ j # i
                          /\ tx_vol[v].ret =
                                 IF j = 0 THEN NaN
                                 ELSE <<Val(tx_vol[v].price)
                                            - NumberOf(ledger[j].price),
                                        NumberOf(ledger[j].price)>>
        /\ FeedbackWritten =>
               /\ EventsOf(i) = {}
               /\ \A k \in DOMAIN events :
                      LET j == Predecessor(Rows04, events[k].transaction_id)
                      IN  /\ j # 0 /\ j # i
                          /\ events[k].price_change =
                                 Num(Val(events[k].price)
                                     - NumberOf(ledger[j].price))
        /\ (InventoryWritten /\ Passes(i, filter_self_trades)) =>
               LET s == ledger[i].trading_session_uuid
                   b == ledger[i].bid_trader_uuid
                   a == ledger[i].ask_trader_uuid
                   q == NumberOf(ledger[i].quantity)
               IN  /\ HasRow(inv_summary, s, b)
                   /\ HasRow(inv_summary, s, a)
                   /\ NetOf(inv_summary, s, b) =
                          NetOf(InventoryWithout(i), s, b)
                          + (IF a = b THEN 0 ELSE q)
                   /\ NetOf(inv_summary, s, a) =
                          NetOf(InventoryWithout(i), s, a)
                          - (IF a = b THEN 0 ELSE q)

\* C8 witness: between two timed transactions that have events lies, in time
\* of arrival, an untimed one between two different traders; all stages ran.
C8_Witness ==
    /\ InventoryWritten
    /\ VolatilityWritten
    /\ FeedbackWritten
    /\ \E i \in DOMAIN ledger :
           /\ Untimed(i)
           /\ ~SelfTrade(i)
           /\ i - 1 \in Rows04
           /\ i + 1 \in Rows04
           /\ EventsOf(i + 1) # {}
           /\ NetOf(inv_summary, ledger[i].trading_session_uuid,
                    ledger[i].bid_trader_uuid) > 0

-----------------------------------------------------------------------------
(* Missing columns: C9 *)

Outputs02 == {"inventory_by_session_trader.csv"}

Outputs03 == {"transactions_with_volatility.csv", "volatility_by_session.csv"}

Outputs04 == {"feedback_events.csv", "feedback_by_session_trader.csv",
              "feedback_by_session.csv"}

Outputs05 == {"session_level_dataset.csv"}

AnalyticOutputs == Outputs02 \cup Outputs03 \cup Outputs04 \cup Outputs05

\* The columns of `required` the raw table cannot supply: timestamp_dt comes
\* from timestamp, every other column is taken as it is.
Lacking(required) ==
    {c \in required : IF c = "timestamp_dt" THEN "timestamp" \notin columns
                      ELSE c \notin columns}

\* The script of `stage` has run.
Ran(stage) ==
    pc \in (IF stage = "inventory"
            THEN {"volatility", "feedback", "regression", "done"}
            ELSE IF stage = "volatility" THEN {"feedback", "regression", "done"}
            ELSE IF stage = "feedback" THEN {"regression", "done"}
            ELSE {"done"})

\* The stage wrote all its tables and raised nothing, or wrote none and
\* named exactly the columns it lacks.
StageOutcome(stage, required, outputs) ==
    Ran(stage) =>
        IF Lacking(required) = {}
        THEN outputs \subseteq written /\ error[stage] = {}
        ELSE outputs \cap written = {} /\ error[stage] = Lacking(required)

-----------------------------------------------------------------------------
(* Rolling volatility: C5 *)

\* The rows of v's session in transactions_with_volatility at or before v.
UpTo(v) ==
    {u \in 1..v : tx_vol[u].trading_session_uuid = tx_vol[v].trading_session_uuid}

\* Those of them with a defined (finite) log_ret.
DefinedUpTo(v) == {u \in UpTo(v) : tx_vol[u].log_ret = "fin"}

\* The last w rows of v's session ending at v (fewer if the session is
\* shorter).
Window(v, w) ==
    {u \in UpTo(v) : Cardinality({x \in UpTo(v) : x > u}) < w}

\* C5 as claimed: rolling_vol_logret at a row is defined if and only if at
\* least W defined log_ret values exist at or before it in its session.
C5_CountOfDefinedReturns ==
    VolatilityWritten =>
        \A v \in DOMAIN tx_vol :
            tx_vol[v].rolling_vol_logret = "fin" <=>
                Cardinality(DefinedUpTo(v)) >= rolling_window_trades

\* C5 amended: rolling_vol_logret at a row is defined if and only if W >= 2
\* and each of the last W rows of the session ending at that row (all in the
\* same session) has a defined log_ret; a log_ret is defined exactly when the
\* row is not the first of its session and its price and the price before it
\* are positive.
C5_FullWindowOfDefinedReturns ==
    VolatilityWritten =>
        \A v \in DOMAIN tx_vol :
            /\ tx_vol[v].rolling_vol_logret \in {"fin", "nan"}
            /\ tx_vol[v].rolling_vol_logret = "fin" <=>
                   /\ rolling_window_trades >= 2
                   /\ Cardinality(Window(v, rolling_window_trades)) =
                          rolling_window_trades
                   /\ Window(v, rolling_window_trades) \subseteq DefinedUpTo(v)
            /\ LET j == Predecessor(Rows03, tx_vol[v].transaction_id)
               IN  tx_vol[v].log_ret = "fin" <=>
                       /\ j # 0
                       /\ NumberOf(ledger[j].price) > 0
                       /\ Val(tx_vol[v].price) > 0

\* C5 witness: with W = 2, a row has a defined log_ret and two defined
\* returns lie at or before it in its session, yet its rolling volatility is
\* undefined: the return before it is not defined (a price of 0 voids the
\* window).
C5_Witness ==
    /\ VolatilityWritten
    /\ rolling_window_trades = 2
    /\ \E v \in DOMAIN tx_vol :
           /\ tx_vol[v].rolling_vol_logret = "nan"
           /\ tx_vol[v].log_ret = "fin"
           /\ Cardinality(DefinedUpTo(v)) >= 2
           /\ \E u \in Window(v, 2) : tx_vol[u].log_ret = "+inf"

====
